---- MODULE Spec2Model ----
(***************************************************************************)
(* Klados worker template: the POST /process handler (src/index.ts, kept   *)
(* as src/unnamed/part_000), the processing routine processJob             *)
(* (src/src/job.ts) and the KladosJob lifecycle the handler drives, as     *)
(* documented in README.md "KladosJob Lifecycle" and "Error Handling".     *)
(*                                                                         *)
(* Every request r has its own handler activation, its own KladosJob       *)
(* handle and its own processJob activation.  A step of the model is one   *)
(* run-to-completion turn of the JavaScript event loop: the code between   *)
(* two awaits.                                                             *)
(***************************************************************************)
EXTENDS Integers, Sequences, FiniteSets, TLC

\* ------------------------------------------------------------------ bounds
NumRequests == 2
NumTargets == 2

Requests == 1..NumRequests
TargetIds == 1..NumTargets

\* id 0 is "no entity"
NoId == 0

VARIABLES
    request,    \* r -> the KladosRequest body of request r
    handler,    \* r -> activation of app.post('/process') for request r
    job,        \* r -> the KladosJob handle created for request r
    routine,    \* r -> activation of processJob(job) for request r
    entities,   \* the entity store behind job.client / job.fetchTarget
    nextId      \* next entity id the store hands out on POST /entities

VARIABLES
    env,        \* the worker's Env bindings (c.env); "" is an unset binding
    http        \* what GET /health and GET /.well-known/arke-verification sent

VARIABLES
    stateFile,  \* .klados-state.json (AgentState), or no file
    cloud,      \* Cloudflare side: worker secrets, wrangler.jsonc, deployments
    arke,       \* Arke API side: collections, kladoi, klados API keys
    reg,        \* one run of scripts/register.ts
    rot         \* one run of scripts/rotate-key.ts

workerVars == <<request, handler, job, routine, entities, nextId>>

scriptVars == <<stateFile, cloud, arke, reg, rot>>

endpointVars == <<env, http>>

\* Everything a step of the worker's POST /process path leaves alone.
nonWorkerVars == <<endpointVars, scriptVars>>

vars == <<workerVars, nonWorkerVars>>

\* --------------------------------------------------------------- requests
\* KladosRequest: target_entity, target_collection, job_collection, job_id;
\* batch tells whether the invocation is a slot of a scatter/gather batch
\* (job.batchContext is set): the requests with an even job id are.
TargetCollection == <<"target", 0>>
JobCollection(r) == <<"jobs", r>>
InBatch(r) == r % 2 = 0

NoRequest ==
    [job_id |-> 0, target_entity |-> NoId, target_collection |-> TargetCollection,
     job_collection |-> <<"jobs", 0>>, batch |-> FALSE]

KladosRequest(r, t) ==
    [job_id |-> r, target_entity |-> t, target_collection |-> TargetCollection,
     job_collection |-> JobCollection(r), batch |-> InBatch(r)]

\* ----------------------------------------------------------------- store
\* Target entities exist before any job runs.  Entity 1 carries a title,
\* the others have none (TargetProperties.title is optional).
TitleOf(t) == IF t = 1 THEN "Test Entity" ELSE ""

TargetEntity(t) ==
    [id |-> t, type |-> "test_entity", collection |-> TargetCollection,
     title |-> TitleOf(t), result |-> <<>>, source_id |-> NoId,
     relationships |-> {}, created_by |-> 0]

NoEntity ==
    [id |-> NoId, type |-> "", collection |-> TargetCollection, title |-> "",
     result |-> <<>>, source_id |-> NoId, relationships |-> {}, created_by |-> 0]

\* ---------------------------------------------------------- initial state
InitHandler ==
    [pc |-> "idle", acceptCalls |-> 0, runCalls |-> 0, waitUntil |-> FALSE,
     response |-> [status |-> 0, body |-> [accepted |-> FALSE, job_id |-> 0]]]

InitJob ==
    [state |-> "none", request |-> NoRequest, logRecords |-> 0,
     logStatus |-> "", messages |-> <<>>, batchUpdates |-> 0,
     handoff |-> <<>>, handoffs |-> 0]

InitRoutine ==
    [pc |-> "idle", target |-> NoEntity, result |-> <<>>, fetchCalls |-> 0,
     createCalls |-> 0, postOutcome |-> "none", returned |-> <<>>,
     threwAt |-> "none"]

\* Env: the bindings of a registered, deployed worker.  Secrets that were
\* never put, or were deleted, are unset.
DeployedEnv ==
    [AGENT_ID |-> "klados_main", AGENT_VERSION |-> "1.0.0",
     ARKE_AGENT_KEY |-> "ak_1", VERIFICATION_TOKEN |-> "",
     ARKE_VERIFY_AGENT_ID |-> ""]

\* No response sent yet.
NoResponse == [status |-> 0]

InitHttp == [health |-> NoResponse, healthCalls |-> 0, verification |-> NoResponse]

\* ------------------------------------------------- registration: data
\* Klados API keys are strings; they are modelled as sequences of characters
\* so that slicing is what the code does.  KeyOf(i) is the i-th key the API
\* hands out.
KeyChars == <<"1", "2", "3", "4">>

KeyOf(i) == <<"a", "k", "_", KeyChars[i], "x", "9", "f", "0", "c", "7", "e", "5">>

NoKey == <<>>

\* getKeyPrefix(key): key.slice(0, 10) + '...'
KeyPrefixLen == 10

Ellipsis == <<".", ".", ".">>

Slice(key, n) == SubSeq(key, 1, IF Len(key) < n THEN Len(key) ELSE n)

GetKeyPrefix(key) == Slice(key, KeyPrefixLen) \o Ellipsis

\* The `prefix` the API reports for a key is an initial part of the key; its
\* length is the API's choice.
ApiPrefixLens == {8, 10}

ApiPrefix(key, n) == Slice(key, n)

\* agent.json: the endpoint configured for this run.
ConfigEndpoint == "https://worker.new"

OldEndpoint == "https://worker.old"

\* AgentState; exists = FALSE is "no state file".
NoStateFile ==
    [exists |-> FALSE, klados_id |-> "", collection_id |-> "",
     api_key_prefix |-> NoKey, endpoint |-> "", endpoint_verified_at |-> 0,
     registered_at |-> 0, updated_at |-> 0]

\* A state file that carries only a collection id.
CollectionOnlyState == [NoStateFile EXCEPT !.exists = TRUE, !.collection_id = "col_old"]

\* The state file an earlier, successful registration run wrote for endpoint ep.
RegisteredState(ep) ==
    [exists |-> TRUE, klados_id |-> "klados_old", collection_id |-> "col_old",
     api_key_prefix |-> GetKeyPrefix(KeyOf(1)), endpoint |-> ep,
     endpoint_verified_at |-> 0, registered_at |-> 0, updated_at |-> 0]

InitialStateFiles ==
    {NoStateFile, CollectionOnlyState, RegisteredState(ConfigEndpoint),
     RegisteredState(OldEndpoint)}

KeyRecord(i, kid, n) ==
    [id |-> i, key |-> KeyOf(i), prefix |-> ApiPrefix(KeyOf(i), n),
     klados |-> kid, revoked |-> FALSE]

\* The API and Cloudflare sides that go with an initial state file.
InitArke(sf, n) ==
    [prefixLen |-> n,
     collections |-> IF sf.collection_id # "" THEN {sf.collection_id} ELSE {},
     kladoi |-> IF sf.klados_id # "" THEN {sf.klados_id} ELSE {},
     active |-> IF sf.klados_id # "" THEN {sf.klados_id} ELSE {},
     keys |-> IF sf.klados_id # "" THEN {KeyRecord(1, sf.klados_id, n)} ELSE {},
     nextKey |-> IF sf.klados_id # "" THEN 2 ELSE 1]

InitCloud(sf) ==
    [secrets |-> [VERIFICATION_TOKEN |-> "", ARKE_VERIFY_AGENT_ID |-> "",
                  ARKE_AGENT_KEY |-> IF sf.klados_id # "" THEN KeyOf(1) ELSE NoKey],
     wranglerAgentId |-> sf.klados_id,
     deploys |-> 0]

InitReg ==
    [pc |-> "idle", flow |-> "none", exit |-> -1, now |-> 0,
     existing |-> NoStateFile, endpointChanged |-> FALSE,
     kladosId |-> "", collectionId |-> "", token |-> "", apiKey |-> NoKey,
     verifiedAt |-> 0,
     pushToken |-> "none", pushVerifyId |-> "none", deploy |-> "none",
     ready |-> "none", confirmRequested |-> FALSE, confirm |-> "none",
     activateRequested |-> FALSE, pushKey |-> "none",
     wranglerConfig |-> "none", finalDeploy |-> "none",
     collectionsCreated |-> 0, kladoiCreated |-> 0, keysCreated |-> 0,
     updates |-> 0, tokenRequests |-> 0, secretPuts |-> 0,
     secretDeletes |-> 0, deployCalls |-> 0, stateWrites |-> 0,
     success |-> FALSE]

InitRot ==
    [pc |-> "idle", exit |-> -1, revokeOld |-> FALSE, state |-> NoStateFile,
     currentKeyId |-> 0, oldKeyId |-> 0, newKeyId |-> 0, revokedKeyId |-> 0,
     stateWrites |-> 0]

\* No script has run and there is nothing registered.
ScriptsIdle ==
    /\ stateFile = NoStateFile
    /\ cloud = InitCloud(NoStateFile)
    /\ arke = InitArke(NoStateFile, 10)
    /\ reg = InitReg
    /\ rot = InitRot

WorkerInit ==
    /\ request = [r \in Requests |-> NoRequest]
    /\ handler = [r \in Requests |-> InitHandler]
    /\ job = [r \in Requests |-> InitJob]
    /\ routine = [r \in Requests |-> InitRoutine]
    /\ entities = {TargetEntity(t) : t \in TargetIds}
    /\ nextId = NumTargets + 1

Init ==
    /\ env = DeployedEnv
    /\ http = InitHttp
    /\ WorkerInit
    /\ ScriptsIdle

\* -------------------------------------------------- KladosJob (the handle)
\* job.acceptResponse: the payload to return immediately; it is fixed by the
\* request the handle was created from.
AcceptResponse(j) == [accepted |-> TRUE, job_id |-> j.request.job_id]

\* KladosJob.accept(req, config): a fresh handle in state "accepted".
Accept(req) == [InitJob EXCEPT !.state = "accepted", !.request = req]

Terminal == {"done", "failed"}

\* The handle the closure passed to job.run hands to processJob: the `job`
\* constant of the same handler activation.
JobOfModuleScope(r) ==
    LET acc == {q \in Requests : job[q].state # "none"}
    IN  IF acc = {} THEN job[r] ELSE job[CHOOSE q \in acc : \A p \in acc : q <= p]

JobOf(r) == job[r]

\* The platform keeps a request's background work alive while its response
\* is still pending, and afterwards only for promises given to waitUntil.
Responded(r) == handler[r].pc = "responded"

TaskAlive(r) == handler[r].waitUntil \/ ~Responded(r)

\* ------------------------------------------------- POST /process handler
\* A request arrives; the handler awaits its JSON body (await c.req.json()).
Arrive(r) ==
    /\ handler[r].pc = "idle"
    /\ handler' = [handler EXCEPT ![r].pc = "parsing"]
    /\ UNCHANGED <<request, job, routine, entities, nextId, nonWorkerVars>>

\* The statements after the await run without yielding:
\*   const job = KladosJob.accept(req, {...});
\*   c.executionCtx.waitUntil(job.run(async () => processJob(job)));
\*   return c.json(job.acceptResponse);
HandleProcessAwaited(r) ==
    \/ /\ handler[r].pc = "parsing"
       /\ \E t \in TargetIds :
             /\ request' = [request EXCEPT ![r] = KladosRequest(r, t)]
             /\ job' = [job EXCEPT ![r] = Accept(KladosRequest(r, t))]
       /\ handler' = [handler EXCEPT ![r].pc = "awaiting",
                                     ![r].acceptCalls = @ + 1,
                                     ![r].runCalls = @ + 1]
       /\ UNCHANGED <<routine, entities, nextId, nonWorkerVars>>
    \/ /\ handler[r].pc = "awaiting"
       /\ job[r].state \in Terminal
       /\ handler' = [handler EXCEPT
                         ![r].pc = "responded",
                         ![r].response = [status |-> 200,
                                          body |-> AcceptResponse(job[r])]]
       /\ UNCHANGED <<request, job, routine, entities, nextId, nonWorkerVars>>

HandleProcessOutcome(r) ==
    \/ /\ handler[r].pc = "parsing"
       /\ \E t \in TargetIds :
             /\ request' = [request EXCEPT ![r] = KladosRequest(r, t)]
             /\ job' = [job EXCEPT ![r] = Accept(KladosRequest(r, t))]
       /\ handler' = [handler EXCEPT ![r].pc = "awaiting",
                                     ![r].acceptCalls = @ + 1,
                                     ![r].runCalls = @ + 1]
       /\ UNCHANGED <<routine, entities, nextId, nonWorkerVars>>
    \/ /\ handler[r].pc = "awaiting"
       /\ job[r].state \in Terminal
       /\ handler' = [handler EXCEPT
                         ![r].pc = "responded",
                         ![r].response =
                             [status |-> IF job[r].state = "failed" THEN 500 ELSE 200,
                              body |-> AcceptResponse(job[r])]]
       /\ UNCHANGED <<request, job, routine, entities, nextId, nonWorkerVars>>

HandleProcessNoWaitUntil(r) ==
    /\ handler[r].pc = "parsing"
    /\ \E t \in TargetIds :
          /\ request' = [request EXCEPT ![r] = KladosRequest(r, t)]
          /\ job' = [job EXCEPT ![r] = Accept(KladosRequest(r, t))]
          /\ handler' = [handler EXCEPT
                            ![r].pc = "responded",
                            ![r].acceptCalls = @ + 1,
                            ![r].runCalls = @ + 1,
                            ![r].response =
                                [status |-> 200,
                                 body |-> AcceptResponse(Accept(KladosRequest(r, t)))]]
    /\ UNCHANGED <<routine, entities, nextId, nonWorkerVars>>

HandleProcessRunTwice(r) ==
    /\ handler[r].pc = "parsing"
    /\ \E t \in TargetIds :
          /\ request' = [request EXCEPT ![r] = KladosRequest(r, t)]
          /\ job' = [job EXCEPT ![r] = Accept(KladosRequest(r, t))]
          /\ handler' = [handler EXCEPT
                            ![r].pc = "responded",
                            ![r].acceptCalls = @ + 1,
                            ![r].runCalls = @ + 2,
                            ![r].waitUntil = TRUE,
                            ![r].response =
                                [status |-> 200,
                                 body |-> AcceptResponse(Accept(KladosRequest(r, t)))]]
    /\ UNCHANGED <<routine, entities, nextId, nonWorkerVars>>

HandleProcessDirect(r) ==
    /\ handler[r].pc = "parsing"
    /\ \E t \in TargetIds :
          /\ request' = [request EXCEPT ![r] = KladosRequest(r, t)]
          /\ job' = [job EXCEPT ![r] = Accept(KladosRequest(r, t))]
          /\ handler' = [handler EXCEPT
                            ![r].pc = "responded",
                            ![r].acceptCalls = @ + 1,
                            ![r].waitUntil = TRUE,
                            ![r].response =
                                [status |-> 200,
                                 body |-> AcceptResponse(Accept(KladosRequest(r, t)))]]
    /\ routine' = [routine EXCEPT ![r].pc = "start"]
    /\ UNCHANGED <<entities, nextId, nonWorkerVars>>

HandleProcess(r) ==
    /\ handler[r].pc = "parsing"
    /\ \E t \in TargetIds :
          /\ request' = [request EXCEPT ![r] = KladosRequest(r, t)]
          /\ job' = [job EXCEPT ![r] = Accept(KladosRequest(r, t))]
          /\ handler' = [handler EXCEPT
                            ![r].pc = "responded",
                            ![r].acceptCalls = @ + 1,
                            ![r].runCalls = @ + 1,
                            ![r].waitUntil = TRUE,
                            ![r].response =
                                [status |-> 200,
                                 body |-> AcceptResponse(Accept(KladosRequest(r, t)))]]
    /\ UNCHANGED <<routine, entities, nextId, nonWorkerVars>>

\* ------------------------------------------------------------ job.run(fn)
\* run writes the initial log entry (status: running) and calls fn.
RunStart(r) ==
    /\ TaskAlive(r)
    /\ handler[r].runCalls > 0
    /\ job[r].state = "accepted"
    /\ job' = [job EXCEPT ![r].state = "running",
                          ![r].logRecords = @ + 1,
                          ![r].logStatus = "running"]
    /\ routine' = [routine EXCEPT ![r].pc = "start"]
    /\ UNCHANGED <<request, handler, entities, nextId, nonWorkerVars>>

\* fn returned: execute the handoff with the returned ids, log status done.
RunSuccess(r) ==
    /\ TaskAlive(r)
    /\ job[r].state = "running"
    /\ routine[r].pc = "returned"
    /\ job' = [job EXCEPT ![r].state = "done",
                          ![r].logStatus = "done",
                          ![r].handoff = routine[r].returned,
                          ![r].handoffs = @ + 1]
    /\ UNCHANGED <<request, handler, routine, entities, nextId, nonWorkerVars>>

\* fn threw: the error is logged and, in scatter/gather, recorded in the
\* batch slot.
RunError(r) ==
    /\ TaskAlive(r)
    /\ job[r].state = "running"
    /\ routine[r].pc = "threw"
    /\ job' = [job EXCEPT ![r].state = "failed",
                          ![r].logStatus = "error",
                          ![r].batchUpdates = IF job[r].request.batch THEN @ + 1 ELSE @]
    /\ UNCHANGED <<request, handler, routine, entities, nextId, nonWorkerVars>>

\* ------------------------------------------------------------- processJob
\* job.log.info / job.log.success append a message to the job's log.
LogMessage(r, m) == [job EXCEPT ![r].messages = Append(@, m)]

LogMessages(r, m1, m2) == [job EXCEPT ![r].messages = Append(Append(@, m1), m2)]

\* processEntity(entityId, properties)
ProcessEntity(entityId, title) ==
    <<"Processed entity", entityId, IF title # "" THEN title ELSE "untitled">>

\* The body of POST /entities built from the fetched target and the result.
OutputBodyTargetCollection(r) ==
    [type |-> "processed_output",
     collection |-> JobOf(r).request.target_collection,
     result |-> routine[r].result,
     source_id |-> routine[r].target.id,
     relationships |-> {[predicate |-> "derived_from",
                         peer |-> routine[r].target.id,
                         peer_type |-> routine[r].target.type]}]

OutputBody(r) ==
    [type |-> "processed_output",
     collection |-> JobOf(r).request.job_collection,
     result |-> routine[r].result,
     source_id |-> routine[r].target.id,
     relationships |-> {[predicate |-> "derived_from",
                         peer |-> routine[r].target.id,
                         peer_type |-> routine[r].target.type]}]

\* The entity the store creates for a POST /entities body.
NewEntity(r, body) ==
    [id |-> nextId, type |-> body.type, collection |-> body.collection,
     title |-> "", result |-> body.result, source_id |-> body.source_id,
     relationships |-> body.relationships, created_by |-> r]

\* job.log.info('Starting job processing'); await job.fetchTarget()
StartProcessingLogsFetched(r) ==
    /\ TaskAlive(r)
    /\ routine[r].pc = "start"
    /\ job' = LogMessages(r, "Starting job processing", "Fetched target entity")
    /\ routine' = [routine EXCEPT ![r].pc = "fetching", ![r].fetchCalls = @ + 1]
    /\ UNCHANGED <<request, handler, entities, nextId, nonWorkerVars>>

StartProcessing(r) ==
    /\ TaskAlive(r)
    /\ routine[r].pc = "start"
    /\ job' = LogMessage(r, "Starting job processing")
    /\ routine' = [routine EXCEPT ![r].pc = "fetching", ![r].fetchCalls = @ + 1]
    /\ UNCHANGED <<request, handler, entities, nextId, nonWorkerVars>>

\* fetchTarget resolved; 'Fetched target entity', 'Processing entity...',
\* await processEntity(target.id, target.properties)
FetchTargetOk(r) ==
    /\ TaskAlive(r)
    /\ routine[r].pc = "fetching"
    /\ \E e \in entities :
          /\ e.id = JobOf(r).request.target_entity
          /\ routine' = [routine EXCEPT ![r].pc = "processing", ![r].target = e]
    /\ job' = LogMessages(r, "Fetched target entity", "Processing entity...")
    /\ UNCHANGED <<request, handler, entities, nextId, nonWorkerVars>>

\* fetchTarget rejected: processJob throws before anything is created.
FetchTargetFailAfterCreate(r) ==
    /\ TaskAlive(r)
    /\ routine[r].pc = "fetching"
    /\ routine' = [routine EXCEPT ![r].pc = "threw", ![r].threwAt = "fetch"]
    /\ entities' = entities \cup {NewEntity(r, OutputBody(r))}
    /\ nextId' = nextId + 1
    /\ UNCHANGED <<request, handler, job, nonWorkerVars>>

FetchTargetFail(r) ==
    /\ TaskAlive(r)
    /\ routine[r].pc = "fetching"
    /\ routine' = [routine EXCEPT ![r].pc = "threw", ![r].threwAt = "fetch"]
    /\ UNCHANGED <<request, handler, job, entities, nextId, nonWorkerVars>>

\* processEntity resolved; 'Processing complete'; POST /entities is issued.
ProcessEntityDone(r) ==
    /\ TaskAlive(r)
    /\ routine[r].pc = "processing"
    /\ routine' = [routine EXCEPT
                      ![r].pc = "creating",
                      ![r].result = ProcessEntity(routine[r].target.id,
                                                  routine[r].target.title),
                      ![r].createCalls = @ + 1]
    /\ job' = LogMessage(r, "Processing complete")
    /\ UNCHANGED <<request, handler, entities, nextId, nonWorkerVars>>

\* POST /entities returned data: 'Created output entity'; return [output.id]
PostEntitiesOk(r) ==
    /\ TaskAlive(r)
    /\ routine[r].pc = "creating"
    /\ entities' = entities \cup {NewEntity(r, OutputBody(r))}
    /\ nextId' = nextId + 1
    /\ routine' = [routine EXCEPT ![r].pc = "returned", ![r].postOutcome = "data",
                                  ![r].returned = <<nextId>>]
    /\ job' = LogMessage(r, "Created output entity")
    /\ UNCHANGED <<request, handler, nonWorkerVars>>

\* POST /entities returned an error or no data: if (error || !output) throw
PostOutcomes == {"error", "nodata"}

PostEntitiesFailReturns(r) ==
    /\ TaskAlive(r)
    /\ routine[r].pc = "creating"
    /\ \E o \in PostOutcomes :
          routine' = [routine EXCEPT ![r].pc = "returned", ![r].postOutcome = o,
                                     ![r].returned = <<NoId>>]
    /\ job' = LogMessage(r, "Created output entity")
    /\ UNCHANGED <<request, handler, entities, nextId, nonWorkerVars>>

PostEntitiesFailRetry(r) ==
    /\ TaskAlive(r)
    /\ routine[r].pc = "creating"
    /\ routine[r].createCalls < 3
    /\ \E o \in PostOutcomes :
          routine' = [routine EXCEPT ![r].postOutcome = o, ![r].createCalls = @ + 1]
    /\ UNCHANGED <<request, handler, job, entities, nextId, nonWorkerVars>>

PostEntitiesFail(r) ==
    /\ TaskAlive(r)
    /\ routine[r].pc = "creating"
    /\ \E o \in PostOutcomes :
          routine' = [routine EXCEPT ![r].pc = "threw", ![r].postOutcome = o,
                                     ![r].threwAt = "create"]
    /\ UNCHANGED <<request, handler, job, entities, nextId, nonWorkerVars>>

\* ---------------------------------------------------------- specification
HandlerStep(r) ==
    \/ Arrive(r)
    \/ HandleProcess(r)

TaskStep(r) ==
    \/ RunStart(r)
    \/ StartProcessing(r)
    \/ FetchTargetOk(r)
    \/ FetchTargetFail(r)
    \/ ProcessEntityDone(r)
    \/ PostEntitiesOk(r)
    \/ PostEntitiesFail(r)
    \/ RunSuccess(r)
    \/ RunError(r)

Next == \E r \in Requests : HandlerStep(r) \/ TaskStep(r)

Spec == Init /\ [][Next]_vars

\* The handler's synchronous statements run, and the platform runs a task
\* that is alive until it settles; every awaited call settles.
FairSpec == Spec /\ \A r \in Requests : WF_vars(HandlerStep(r) \/ TaskStep(r))

\* ------------------------------------------------------- GET endpoints
\* A string binding is falsy in JavaScript exactly when it is unset or "".
Truthy(v) == v # ""

\* app.get('/health')
HealthResponseVerifyId(e) ==
    [status |-> 200,
     body |-> [status |-> "ok",
               agent_id |-> IF Truthy(e.ARKE_VERIFY_AGENT_ID)
                            THEN e.ARKE_VERIFY_AGENT_ID ELSE e.AGENT_ID,
               version |-> e.AGENT_VERSION]]

HealthResponse(e) ==
    [status |-> 200,
     body |-> [status |-> "ok", agent_id |-> e.AGENT_ID, version |-> e.AGENT_VERSION]]

\* app.get('/.well-known/arke-verification')
VerificationNotConfigured == [status |-> 500, body |-> [error |-> "Verification not configured"]]

VerificationResponseMainFirst(e) ==
    LET token == e.VERIFICATION_TOKEN
        kladosId == IF Truthy(e.AGENT_ID) THEN e.AGENT_ID ELSE e.ARKE_VERIFY_AGENT_ID
    IN  IF ~Truthy(token) \/ ~Truthy(kladosId)
        THEN VerificationNotConfigured
        ELSE [status |-> 200,
              body |-> [verification_token |-> token, klados_id |-> kladosId]]

VerificationResponseBothMissing(e) ==
    LET token == e.VERIFICATION_TOKEN
        kladosId == IF Truthy(e.ARKE_VERIFY_AGENT_ID)
                    THEN e.ARKE_VERIFY_AGENT_ID ELSE e.AGENT_ID
    IN  IF ~Truthy(token) /\ ~Truthy(kladosId)
        THEN VerificationNotConfigured
        ELSE [status |-> 200,
              body |-> [verification_token |-> token, klados_id |-> kladosId]]

VerificationResponse(e) ==
    LET token == e.VERIFICATION_TOKEN
        kladosId == IF Truthy(e.ARKE_VERIFY_AGENT_ID)
                    THEN e.ARKE_VERIFY_AGENT_ID ELSE e.AGENT_ID
    IN  IF ~Truthy(token) \/ ~Truthy(kladosId)
        THEN VerificationNotConfigured
        ELSE [status |-> 200,
              body |-> [verification_token |-> token, klados_id |-> kladosId]]

\* How often /health is called in one behaviour.
MaxHealthCalls == 2

Health ==
    /\ http.healthCalls < MaxHealthCalls
    /\ http' = [http EXCEPT !.health = HealthResponse(env), !.healthCalls = @ + 1]
    /\ UNCHANGED <<env, workerVars, scriptVars>>

Verification ==
    /\ http' = [http EXCEPT !.verification = VerificationResponse(env)]
    /\ UNCHANGED <<env, workerVars, scriptVars>>

\* The configurations the worker can be deployed with: each of AGENT_ID,
\* ARKE_VERIFY_AGENT_ID and VERIFICATION_TOKEN set or unset.
EnvConfigs ==
    {[AGENT_ID |-> a, AGENT_VERSION |-> "1.0.0", ARKE_AGENT_KEY |-> "ak_1",
      VERIFICATION_TOKEN |-> t, ARKE_VERIFY_AGENT_ID |-> v] :
        a \in {"", "klados_main"}, v \in {"", "klados_verify"}, t \in {"", "vt_1"}}

\* The GET endpoints of a worker with any configuration, called while the
\* job of one POST /process request is in flight.
EndpointJobs == {1}

EndpointInit ==
    /\ env \in EnvConfigs
    /\ http = InitHttp
    /\ WorkerInit
    /\ ScriptsIdle

EndpointNext ==
    \/ Health
    \/ Verification
    \/ \E r \in EndpointJobs : HandlerStep(r) \/ TaskStep(r)

EndpointSpec == EndpointInit /\ [][EndpointNext]_vars

\* ------------------------------------------------- scripts/register.ts
\* catch (error) { ...; process.exit(1) }
Failed(run) == [run EXCEPT !.pc = "exited", !.exit = 1]

Outcome(ok) == IF ok THEN "ok" ELSE "failed"

\* const endpointChanged = existingState.endpoint !== config.endpoint
EndpointChangedAlways(existing) == TRUE

EndpointChanged(existing) == existing.endpoint # ConfigEndpoint

\* main() up to the branch on existingState?.klados_id.  The run stops at
\* once when ARKE_USER_KEY or agent.json is missing.
RegStart ==
    /\ reg.pc = "idle"
    /\ rot.pc = "idle"
    /\ \E configured \in BOOLEAN :
          reg' = IF ~configured
                 THEN Failed(reg)
                 ELSE IF stateFile.exists /\ stateFile.klados_id # ""
                 THEN [reg EXCEPT !.pc = "updateKlados", !.flow = "update",
                                  !.now = 1, !.existing = stateFile,
                                  !.kladosId = stateFile.klados_id,
                                  !.endpointChanged = EndpointChanged(stateFile)]
                 ELSE [reg EXCEPT !.pc = "collection", !.flow = "create",
                                  !.now = 1, !.existing = stateFile]
    /\ UNCHANGED <<stateFile, cloud, arke, rot, workerVars, endpointVars>>

\* await updateKlados(network, existingState.klados_id, config)
UpdateKlados ==
    /\ reg.pc = "updateKlados"
    /\ \E ok \in BOOLEAN :
          reg' = IF ~ok
                 THEN Failed(reg)
                 ELSE [reg EXCEPT !.updates = @ + 1,
                                  !.pc = IF reg.endpointChanged
                                         THEN "requestToken" ELSE "saveState"]
    /\ UNCHANGED <<stateFile, cloud, arke, rot, workerVars, endpointVars>>

\* getOrCreateCollection(network, stateFile)
GetOrCreateCollection ==
    /\ reg.pc = "collection"
    /\ IF stateFile.exists /\ stateFile.collection_id # ""
       THEN /\ reg' = [reg EXCEPT !.pc = "createKlados",
                                  !.collectionId = stateFile.collection_id]
            /\ arke' = arke
       ELSE \E ok \in BOOLEAN :
               IF ~ok
               THEN reg' = Failed(reg) /\ arke' = arke
               ELSE /\ reg' = [reg EXCEPT !.pc = "createKlados",
                                          !.collectionId = "col_new",
                                          !.collectionsCreated = @ + 1]
                    /\ arke' = [arke EXCEPT !.collections = @ \cup {"col_new"}]
    /\ UNCHANGED <<stateFile, cloud, rot, workerVars, endpointVars>>

\* createKlados(network, config, collectionId)
CreateKlados ==
    /\ reg.pc = "createKlados"
    /\ \E ok \in BOOLEAN :
          IF ~ok
          THEN reg' = Failed(reg) /\ arke' = arke
          ELSE /\ reg' = [reg EXCEPT !.pc = "requestToken",
                                     !.kladosId = "klados_new",
                                     !.kladoiCreated = @ + 1]
               /\ arke' = [arke EXCEPT !.kladoi = @ \cup {"klados_new"}]
    /\ UNCHANGED <<stateFile, cloud, rot, workerVars, endpointVars>>

\* requestVerificationToken(network, kladosId)
RequestVerificationToken ==
    /\ reg.pc = "requestToken"
    /\ \E ok \in BOOLEAN :
          reg' = IF ~ok
                 THEN Failed(reg)
                 ELSE [reg EXCEPT !.pc = "pushToken", !.token = "vt_1",
                                  !.tokenRequests = @ + 1]
    /\ UNCHANGED <<stateFile, cloud, arke, rot, workerVars, endpointVars>>

\* pushSecret('VERIFICATION_TOKEN', verification.token): the new-klados flow
\* throws when it fails, the re-verification flow ignores the result.
PushVerificationToken ==
    /\ reg.pc = "pushToken"
    /\ \E ok \in BOOLEAN :
          /\ cloud' = IF ok
                      THEN [cloud EXCEPT !.secrets.VERIFICATION_TOKEN = reg.token]
                      ELSE cloud
          /\ reg' = IF ~ok /\ reg.flow = "create"
                    THEN [Failed(reg) EXCEPT !.pushToken = "failed",
                                             !.secretPuts = @ + 1]
                    ELSE [reg EXCEPT !.pc = "pushVerifyId",
                                     !.pushToken = Outcome(ok),
                                     !.secretPuts = @ + 1]
    /\ UNCHANGED <<stateFile, arke, rot, workerVars, endpointVars>>

\* pushSecret('ARKE_VERIFY_AGENT_ID', kladosId)
PushVerifyAgentId ==
    /\ reg.pc = "pushVerifyId"
    /\ \E ok \in BOOLEAN :
          /\ cloud' = IF ok
                      THEN [cloud EXCEPT !.secrets.ARKE_VERIFY_AGENT_ID = reg.kladosId]
                      ELSE cloud
          /\ reg' = IF ~ok /\ reg.flow = "create"
                    THEN [Failed(reg) EXCEPT !.pushVerifyId = "failed",
                                             !.secretPuts = @ + 1]
                    ELSE [reg EXCEPT !.pc = "deploy",
                                     !.pushVerifyId = Outcome(ok),
                                     !.secretPuts = @ + 1]
    /\ UNCHANGED <<stateFile, arke, rot, workerVars, endpointVars>>

\* deployWorker() before verification: checked in the new-klados flow only.
DeployWorker ==
    /\ reg.pc = "deploy"
    /\ \E ok \in BOOLEAN :
          /\ cloud' = IF ok THEN [cloud EXCEPT !.deploys = @ + 1] ELSE cloud
          /\ reg' = IF ~ok /\ reg.flow = "create"
                    THEN [Failed(reg) EXCEPT !.deploy = "failed",
                                             !.deployCalls = @ + 1]
                    ELSE [reg EXCEPT !.pc = "wait", !.deploy = Outcome(ok),
                                     !.deployCalls = @ + 1]
    /\ UNCHANGED <<stateFile, arke, rot, workerVars, endpointVars>>

\* waitForDeployment(config.endpoint): true once /health answered ok, false
\* after maxWaitMs; a timeout only prints a warning.
WaitForDeployment ==
    /\ reg.pc = "wait"
    /\ \E isReady \in BOOLEAN :
          reg' = [reg EXCEPT !.pc = "confirm",
                             !.ready = IF isReady THEN "yes" ELSE "timeout"]
    /\ UNCHANGED <<stateFile, cloud, arke, rot, workerVars, endpointVars>>

\* confirmVerification(network, kladosId); if (!verifyResult.verified) throw
ConfirmOutcomes == {"verified", "unverified", "error"}

ConfirmVerificationUnchecked ==
    /\ reg.pc = "confirm"
    /\ \E out \in ConfirmOutcomes :
          reg' = IF out = "error"
                 THEN [Failed(reg) EXCEPT !.confirmRequested = TRUE, !.confirm = out]
                 ELSE [reg EXCEPT !.pc = "activate", !.confirmRequested = TRUE,
                                  !.confirm = out, !.verifiedAt = reg.now]
    /\ UNCHANGED <<stateFile, cloud, arke, rot, workerVars, endpointVars>>

ConfirmVerification ==
    /\ reg.pc = "confirm"
    /\ \E out \in ConfirmOutcomes :
          reg' = IF out = "verified"
                 THEN [reg EXCEPT !.pc = "activate", !.confirmRequested = TRUE,
                                  !.confirm = out, !.verifiedAt = reg.now]
                 ELSE [Failed(reg) EXCEPT !.confirmRequested = TRUE, !.confirm = out]
    /\ UNCHANGED <<stateFile, cloud, arke, rot, workerVars, endpointVars>>

\* activateKlados(network, kladosId): GET the tip, then PUT status active.
ActivateOutcomes == {"tipError", "putError", "ok"}

ActivateKlados ==
    /\ reg.pc = "activate"
    /\ \E out \in ActivateOutcomes :
          /\ reg' = IF out = "tipError" THEN Failed(reg)
                    ELSE IF out = "putError"
                    THEN [Failed(reg) EXCEPT !.activateRequested = TRUE]
                    ELSE [reg EXCEPT !.activateRequested = TRUE,
                                     !.pc = IF reg.flow = "create"
                                            THEN "createKey" ELSE "cleanup"]
          /\ arke' = IF out = "ok"
                     THEN [arke EXCEPT !.active = @ \cup {reg.kladosId}]
                     ELSE arke
    /\ UNCHANGED <<stateFile, cloud, rot, workerVars, endpointVars>>

\* createKladosApiKey(network, klados.id, label)
CreateKladosApiKey ==
    /\ reg.pc = "createKey"
    /\ \E ok \in BOOLEAN :
          IF ~ok
          THEN reg' = Failed(reg) /\ arke' = arke
          ELSE /\ reg' = [reg EXCEPT !.pc = "pushKey",
                                     !.apiKey = KeyOf(arke.nextKey),
                                     !.keysCreated = @ + 1]
               /\ arke' = [arke EXCEPT
                              !.keys = @ \cup {KeyRecord(arke.nextKey, reg.kladosId,
                                                         arke.prefixLen)},
                              !.nextKey = @ + 1]
    /\ UNCHANGED <<stateFile, cloud, rot, workerVars, endpointVars>>

\* pushSecret('ARKE_AGENT_KEY', apiKey.key): a failure only prints a warning.
PushApiKey ==
    /\ reg.pc = "pushKey"
    /\ \E ok \in BOOLEAN :
          /\ cloud' = IF ok
                      THEN [cloud EXCEPT !.secrets.ARKE_AGENT_KEY = reg.apiKey]
                      ELSE cloud
          /\ reg' = [reg EXCEPT !.pc = "cleanup", !.pushKey = Outcome(ok),
                                !.secretPuts = @ + 1]
    /\ UNCHANGED <<stateFile, arke, rot, workerVars, endpointVars>>

\* deleteSecret('VERIFICATION_TOKEN'); deleteSecret('ARKE_VERIFY_AGENT_ID'):
\* both results are ignored.
CleanupVerificationSecrets ==
    /\ reg.pc = "cleanup"
    /\ \E ok1, ok2 \in BOOLEAN :
          cloud' = [cloud EXCEPT
                       !.secrets.VERIFICATION_TOKEN = IF ok1 THEN "" ELSE @,
                       !.secrets.ARKE_VERIFY_AGENT_ID = IF ok2 THEN "" ELSE @]
    /\ reg' = [reg EXCEPT !.secretDeletes = @ + 2,
                          !.pc = IF reg.flow = "create"
                                 THEN "wranglerConfig" ELSE "saveState"]
    /\ UNCHANGED <<stateFile, arke, rot, workerVars, endpointVars>>

\* updateWranglerConfig(klados.id): a failure only prints a warning.
UpdateWranglerConfig ==
    /\ reg.pc = "wranglerConfig"
    /\ \E ok \in BOOLEAN :
          /\ cloud' = IF ok THEN [cloud EXCEPT !.wranglerAgentId = reg.kladosId]
                      ELSE cloud
          /\ reg' = [reg EXCEPT !.pc = "finalDeploy", !.wranglerConfig = Outcome(ok)]
    /\ UNCHANGED <<stateFile, arke, rot, workerVars, endpointVars>>

\* deployWorker() as the final deployment: the result is not looked at.
FinalDeploy ==
    /\ reg.pc = "finalDeploy"
    /\ \E ok \in BOOLEAN :
          /\ cloud' = IF ok THEN [cloud EXCEPT !.deploys = @ + 1] ELSE cloud
          /\ reg' = [reg EXCEPT !.pc = "saveState", !.finalDeploy = Outcome(ok),
                                !.deployCalls = @ + 1]
    /\ UNCHANGED <<stateFile, arke, rot, workerVars, endpointVars>>

\* The state written at the end of each flow.
NewState ==
    [exists |-> TRUE, klados_id |-> reg.kladosId, collection_id |-> reg.collectionId,
     api_key_prefix |-> GetKeyPrefix(reg.apiKey), endpoint |-> ConfigEndpoint,
     endpoint_verified_at |-> reg.verifiedAt, registered_at |-> reg.now,
     updated_at |-> reg.now]

UpdatedState ==
    IF reg.endpointChanged
    THEN [reg.existing EXCEPT !.endpoint = ConfigEndpoint,
                              !.endpoint_verified_at = reg.verifiedAt,
                              !.updated_at = reg.now]
    ELSE [reg.existing EXCEPT !.updated_at = reg.now]

\* writeFileSync(stateFile, ...), the success message, and the exit.
SaveState ==
    /\ reg.pc = "saveState"
    /\ \E ok \in BOOLEAN :
          IF ~ok
          THEN reg' = Failed(reg) /\ stateFile' = stateFile
          ELSE /\ stateFile' = IF reg.flow = "create" THEN NewState ELSE UpdatedState
               /\ reg' = [reg EXCEPT !.pc = "exited", !.exit = 0,
                                     !.stateWrites = @ + 1, !.success = TRUE]
    /\ UNCHANGED <<cloud, arke, rot, workerVars, endpointVars>>

\* ----------------------------------------------- scripts/rotate-key.ts
\* keys.find((k) => k.prefix === state.api_key_prefix): the id of the listed
\* key with that prefix, 0 for undefined.
FindCurrentKey(keys, prefix) ==
    IF \E k \in keys : k.prefix = prefix
    THEN (CHOOSE k \in keys : k.prefix = prefix).id
    ELSE 0

ListApiKeys(kid) == {k \in arke.keys : k.klados = kid /\ ~k.revoked}

\* main() up to the try block: ARKE_USER_KEY and the state file are required.
RotStart ==
    /\ rot.pc = "idle"
    /\ reg.pc \in {"idle", "exited"}
    /\ \E hasUserKey, revokeOld \in BOOLEAN :
          rot' = IF ~hasUserKey \/ ~stateFile.exists
                 THEN Failed(rot)
                 ELSE [rot EXCEPT !.pc = "list", !.revokeOld = revokeOld,
                                  !.state = stateFile]
    /\ UNCHANGED <<stateFile, cloud, arke, reg, workerVars, endpointVars>>

\* await listApiKeys(client, state.klados_id), then the lookup by prefix.
RotListKeys ==
    /\ rot.pc = "list"
    /\ \E ok \in BOOLEAN :
          rot' = IF ~ok \/ rot.state.klados_id \notin arke.kladoi
                 THEN Failed(rot)
                 ELSE [rot EXCEPT
                          !.pc = "rotate",
                          !.currentKeyId =
                              FindCurrentKey(ListApiKeys(rot.state.klados_id),
                                             rot.state.api_key_prefix)]
    /\ UNCHANGED <<stateFile, cloud, arke, reg, workerVars, endpointVars>>

\* await rotateApiKey(client, state.klados_id, {label, revokeOld,
\* oldKeyId: currentKey?.id, keyStore}): creates a key, pushes it to
\* Cloudflare, and revokes the old key when asked to and given its id.
RotateApiKey ==
    /\ rot.pc = "rotate"
    /\ \E ok \in BOOLEAN :
          IF ~ok
          THEN rot' = [Failed(rot) EXCEPT !.oldKeyId = rot.currentKeyId]
               /\ arke' = arke /\ cloud' = cloud
          ELSE LET revoke == rot.revokeOld /\ rot.currentKeyId # 0
                   created == KeyRecord(arke.nextKey, rot.state.klados_id,
                                        arke.prefixLen)
               IN /\ arke' = [arke EXCEPT
                                 !.keys = {IF revoke /\ k.id = rot.currentKeyId
                                           THEN [k EXCEPT !.revoked = TRUE]
                                           ELSE k : k \in @} \cup {created},
                                 !.nextKey = @ + 1]
                  /\ cloud' = [cloud EXCEPT !.secrets.ARKE_AGENT_KEY = created.key]
                  /\ rot' = [rot EXCEPT
                                !.pc = "writeState",
                                !.oldKeyId = rot.currentKeyId,
                                !.newKeyId = created.id,
                                !.revokedKeyId = IF revoke THEN rot.currentKeyId
                                                 ELSE 0]
    /\ UNCHANGED <<stateFile, reg, workerVars, endpointVars>>

RotNow == 2

\* A write that leaves out the assignment of the new prefix.
RotWriteStateKeepsPrefix ==
    /\ rot.pc = "writeState"
    /\ \E ok \in BOOLEAN :
          IF ~ok
          THEN rot' = Failed(rot) /\ stateFile' = stateFile
          ELSE /\ stateFile' = [rot.state EXCEPT !.updated_at = RotNow]
               /\ rot' = [rot EXCEPT !.pc = "redeploy", !.stateWrites = @ + 1]
    /\ UNCHANGED <<cloud, arke, reg, workerVars, endpointVars>>

\* state.api_key_prefix = result.new_key.prefix; state.updated_at = now;
\* writeState(stateFile, state)
RotWriteState ==
    /\ rot.pc = "writeState"
    /\ \E ok \in BOOLEAN :
          IF ~ok
          THEN rot' = Failed(rot) /\ stateFile' = stateFile
          ELSE /\ stateFile' =
                     [rot.state EXCEPT
                         !.api_key_prefix = ApiPrefix(KeyOf(rot.newKeyId),
                                                      arke.prefixLen),
                         !.updated_at = RotNow]
               /\ rot' = [rot EXCEPT !.pc = "redeploy", !.stateWrites = @ + 1]
    /\ UNCHANGED <<cloud, arke, reg, workerVars, endpointVars>>

\* execSync('wrangler deploy'): throws when the deploy fails.
RotRedeploy ==
    /\ rot.pc = "redeploy"
    /\ \E ok \in BOOLEAN :
          IF ~ok
          THEN rot' = Failed(rot) /\ cloud' = cloud
          ELSE /\ cloud' = [cloud EXCEPT !.deploys = @ + 1]
               /\ rot' = [rot EXCEPT !.pc = "exited", !.exit = 0]
    /\ UNCHANGED <<stateFile, arke, reg, workerVars, endpointVars>>

\* The scripts are run from a shell against a state file that is absent,
\* holds a collection only, or was written by an earlier registration.
ScriptInit ==
    /\ env = DeployedEnv
    /\ http = InitHttp
    /\ WorkerInit
    /\ stateFile \in InitialStateFiles
    /\ \E n \in ApiPrefixLens : arke = InitArke(stateFile, n)
    /\ cloud = InitCloud(stateFile)
    /\ reg = InitReg
    /\ rot = InitRot

ScriptNext ==
    \/ RegStart
    \/ UpdateKlados
    \/ GetOrCreateCollection
    \/ CreateKlados
    \/ RequestVerificationToken
    \/ PushVerificationToken
    \/ PushVerifyAgentId
    \/ DeployWorker
    \/ WaitForDeployment
    \/ ConfirmVerification
    \/ ActivateKlados
    \/ CreateKladosApiKey
    \/ PushApiKey
    \/ CleanupVerificationSecrets
    \/ UpdateWranglerConfig
    \/ FinalDeploy
    \/ SaveState
    \/ RotStart
    \/ RotListKeys
    \/ RotateApiKey
    \/ RotWriteState
    \/ RotRedeploy

ScriptSpec == ScriptInit /\ [][ScriptNext]_vars

\* ------------------------------------------------------------- properties
CreatedBy(r) == {e \in entities : e.created_by = r}

RoutineSettled(r) == routine[r].pc \in {"returned", "threw"}

\* C1: the acknowledgment of POST /process is produced from the handle made
\* by accept in the same turn that creates the handle, so it never waits for
\* the processing routine: whenever a handle exists, whatever the progress
\* of its run, the response has been returned and carries that handle's
\* acceptResponse.
AckIndependentOfRun ==
    \A r \in Requests :
        job[r].state # "none" =>
            /\ Responded(r)
            /\ handler[r].response.body = AcceptResponse(job[r])

AckPrecedesCompletion ==
    \E r \in Requests :
        /\ Responded(r)
        /\ job[r].state = "running"
        /\ routine[r].pc = "processing"

\* C2: under fair scheduling of the background task, every job whose
\* acknowledgment has been returned eventually reaches done or failed.
AcceptedJobTerminates ==
    \A r \in Requests :
        (Responded(r) /\ job[r].state = "accepted") ~> (job[r].state \in Terminal)

DetachedRunCompleted ==
    \E r \in Requests :
        /\ Responded(r)
        /\ handler[r].waitUntil
        /\ job[r].state \in Terminal
        /\ RoutineSettled(r)

\* C3: per request the handler calls accept once and run once, the handle
\* produces exactly one log record once it runs and never more than one, and
\* at most one batch-slot update, whatever the routine's outcome.
OneLogRecordPerLifecycle ==
    \A r \in Requests :
        /\ handler[r].acceptCalls <= 1
        /\ handler[r].runCalls <= 1
        /\ Responded(r) => handler[r].acceptCalls = 1 /\ handler[r].runCalls = 1
        /\ job[r].logRecords <= 1
        /\ job[r].state \in {"running", "done", "failed"} => job[r].logRecords = 1
        /\ job[r].batchUpdates <= 1

BatchJobFailedOnce ==
    \E r \in Requests :
        /\ job[r].state = "failed"
        /\ job[r].request.batch
        /\ job[r].batchUpdates = 1
        /\ job[r].logRecords = 1

\* C4: the response of POST /process is HTTP 200 with the acceptance payload
\* of the request, in every state of the job including done and failed; the
\* outcome shows only in the status of the job's log record.
ResponseSameWhateverOutcome ==
    \A r \in Requests :
        /\ Responded(r) =>
              handler[r].response =
                  [status |-> 200,
                   body |-> [accepted |-> TRUE, job_id |-> request[r].job_id]]
        /\ job[r].state = "done" => job[r].logStatus = "done"
        /\ job[r].state = "failed" => job[r].logStatus = "error"

BothOutcomesAcknowledged ==
    \E r1, r2 \in Requests :
        /\ job[r1].state = "done" /\ handler[r1].response.status = 200
        /\ job[r2].state = "failed" /\ handler[r2].response.status = 200

\* C5: a job's state changes only along accepted -> running -> done and
\* accepted -> running -> failed (after its creation in state accepted),
\* terminal states are never left, and processJob is entered and takes its
\* steps only while the job is running.
LifecycleEdges ==
    {<<"none", "accepted">>, <<"accepted", "running">>,
     <<"running", "done">>, <<"running", "failed">>}

LifecycleOnlyForward ==
    [][\A r \in Requests :
          /\ job'[r].state # job[r].state =>
                <<job[r].state, job'[r].state>> \in LifecycleEdges
          /\ routine'[r] # routine[r] =>
                /\ job'[r].state = "running"
                /\ routine[r].pc # "idle" => job[r].state = "running"
          /\ CreatedBy(r)' # CreatedBy(r) => job[r].state = "running"]_vars

RoutineRanInsideRunning ==
    \E r1, r2 \in Requests :
        /\ job[r1].state = "done" /\ routine[r1].createCalls = 1
        /\ job[r2].state = "failed" /\ routine[r2].fetchCalls = 1

\* C6: concurrent requests have independent lifecycles: every handle is
\* bound to its own request, every routine fetches its own request's target
\* and creates an output referring to that target only, and no step changes
\* the handler, handle or routine state of more than one request.
PerRequest(r) == <<request[r], handler[r], job[r], routine[r]>>

OwnRequestOnly ==
    \A r \in Requests :
        /\ job[r].state # "none" => job[r].request = request[r]
        /\ routine[r].target.id \in {NoId, request[r].target_entity}
        /\ \A e \in CreatedBy(r) :
              /\ e.source_id = request[r].target_entity
              /\ e.collection = request[r].job_collection
              /\ \A rel \in e.relationships : rel.peer = request[r].target_entity

IndependentLifecycles ==
    /\ []OwnRequestOnly
    /\ [][\A r1, r2 \in Requests :
             r1 # r2 => ~(PerRequest(r1)' # PerRequest(r1) /\ PerRequest(r2)' # PerRequest(r2))]_vars

TwoJobsDifferentTargets ==
    \E r1, r2 \in Requests :
        /\ r1 # r2
        /\ request[r1].target_entity # request[r2].target_entity
        /\ job[r1].state = "done" /\ job[r2].state = "done"
        /\ CreatedBy(r1) # {} /\ CreatedBy(r2) # {}

ThrowBeforeCreateFails ==
    \A r \in Requests :
        routine[r].threwAt = "fetch" =>
            /\ job[r].state \in {"running", "failed"}
            /\ CreatedBy(r) = {}
            /\ routine[r].createCalls = 0
            /\ routine[r].returned = <<>>

ThrewBeforeCreateAndFailed ==
    \E r \in Requests :
        /\ routine[r].threwAt = "fetch"
        /\ job[r].state = "failed"
        /\ job[r].logStatus = "error"

\* C9: when POST /entities answers with an error or without data the
\* routine throws instead of returning, the run ends failed and nothing is
\* handed off; the routine returns an id only of an entity the creation
\* call returned.
CreateFailureThrows ==
    \A r \in Requests :
        /\ routine[r].postOutcome \in PostOutcomes =>
              /\ routine[r].pc = "threw"
              /\ routine[r].returned = <<>>
              /\ job[r].handoff = <<>>
              /\ job[r].state \in {"running", "failed"}
        /\ routine[r].returned # <<>> =>
              /\ routine[r].postOutcome = "data"
              /\ \E e \in CreatedBy(r) : routine[r].returned = <<e.id>>

CreateFailedRunFailed ==
    \E r1, r2 \in Requests :
        /\ routine[r1].postOutcome = "error" /\ job[r1].state = "failed"
        /\ routine[r2].postOutcome = "nodata" /\ job[r2].state = "failed"

\* C10: a run fetches the target exactly once, attempts the output creation
\* at most once, a successful run has created exactly one output entity, and
\* after a throw the routine takes no further step.
SingleFetchSingleCreate ==
    /\ [](\A r \in Requests :
            /\ routine[r].fetchCalls <= 1
            /\ routine[r].createCalls <= 1
            /\ routine[r].pc \notin {"idle", "start"} => routine[r].fetchCalls = 1
            /\ Cardinality(CreatedBy(r)) <= routine[r].createCalls
            /\ job[r].state = "done" =>
                  Cardinality(CreatedBy(r)) = 1 /\ routine[r].createCalls = 1)
    /\ [][\A r \in Requests :
             routine[r].pc = "threw" => routine'[r] = routine[r]]_vars

FailedAfterOneAttempt ==
    \E r1, r2 \in Requests :
        /\ job[r1].state = "failed"
        /\ routine[r1].fetchCalls = 1 /\ routine[r1].createCalls = 1
        /\ job[r2].state = "done"
        /\ Cardinality(CreatedBy(r2)) = 1

\* C11: a successful verification response carries ARKE_VERIFY_AGENT_ID as
\* klados_id whenever that binding is set, also when AGENT_ID is set too,
\* carries AGENT_ID only when ARKE_VERIFY_AGENT_ID is unset, and its
\* verification_token is the configured VERIFICATION_TOKEN.
VerifyIdPreferred ==
    http.verification.status = 200 =>
        /\ Truthy(env.ARKE_VERIFY_AGENT_ID) =>
              http.verification.body.klados_id = env.ARKE_VERIFY_AGENT_ID
        /\ ~Truthy(env.ARKE_VERIFY_AGENT_ID) =>
              http.verification.body.klados_id = env.AGENT_ID
        /\ http.verification.body.verification_token = env.VERIFICATION_TOKEN

VerifyIdReturnedWhenBothSet ==
    /\ http.verification.status = 200
    /\ Truthy(env.AGENT_ID)
    /\ Truthy(env.ARKE_VERIFY_AGENT_ID)
    /\ http.verification.body.klados_id = env.ARKE_VERIFY_AGENT_ID

\* C12: the verification endpoint answers 500 exactly when the token is unset
\* or both identifier bindings are unset; otherwise it answers 200 with a
\* token and an identifier that are both set.
VerificationConfigured(e) ==
    Truthy(e.VERIFICATION_TOKEN) /\ (Truthy(e.ARKE_VERIFY_AGENT_ID) \/ Truthy(e.AGENT_ID))

ConfigErrorExactlyWhenUnconfigured ==
    http.verification # NoResponse =>
        /\ http.verification.status \in {200, 500}
        /\ http.verification.status = 500 <=> ~VerificationConfigured(env)
        /\ http.verification.status = 500 =>
              http.verification = VerificationNotConfigured
        /\ http.verification.status = 200 =>
              /\ Truthy(http.verification.body.verification_token)
              /\ Truthy(http.verification.body.klados_id)

ConfigErrorWithTokenButNoId ==
    /\ http.verification.status = 500
    /\ Truthy(env.VERIFICATION_TOKEN)
    /\ ~Truthy(env.ARKE_VERIFY_AGENT_ID)
    /\ ~Truthy(env.AGENT_ID)

\* C13: every call of GET /health answers 200 with the configured AGENT_ID
\* and AGENT_VERSION, changes neither the configuration nor any job state
\* nor the other endpoint's output, and a repeated call returns the same
\* response as the call before.
HealthPureAndIdempotent ==
    [][http'.healthCalls # http.healthCalls =>
          /\ http'.health = [status |-> 200,
                             body |-> [status |-> "ok",
                                       agent_id |-> env.AGENT_ID,
                                       version |-> env.AGENT_VERSION]]
          /\ http.healthCalls > 0 => http'.health = http.health
          /\ http'.verification = http.verification
          /\ env' = env
          /\ workerVars' = workerVars]_vars

HealthCalledTwiceDuringJob ==
    /\ http.healthCalls >= 2
    /\ http.health.status = 200
    /\ Truthy(env.ARKE_VERIFY_AGENT_ID)
    /\ \E r \in Requests : job[r].state = "running"

\* C14: the messages of a job's log are always an initial part of
\* 'Starting job processing', 'Fetched target entity', 'Processing
\* entity...', 'Processing complete', 'Created output entity', in that order;
\* 'Fetched target entity' is present only once the target fetch succeeded
\* and 'Created output entity' only once the creation returned an entity; a
\* job that is done has the whole list and log status done; and under fair
\* scheduling every acknowledged job whose calls do not fail ends that way.
FullLog ==
    <<"Starting job processing", "Fetched target entity", "Processing entity...",
      "Processing complete", "Created output entity">>

IsPrefix(s, t) == Len(s) <= Len(t) /\ s = SubSeq(t, 1, Len(s))

LogInOrder ==
    \A r \in Requests :
        /\ IsPrefix(job[r].messages, FullLog)
        /\ Len(job[r].messages) >= 2 =>
              routine[r].target.id = request[r].target_entity
        /\ Len(job[r].messages) >= 5 =>
              routine[r].postOutcome = "data" /\ CreatedBy(r) # {}
        /\ job[r].state = "done" =>
              job[r].messages = FullLog /\ job[r].logStatus = "done"

ActivationOnlyAfterVerified ==
    /\ reg.activateRequested => reg.confirm = "verified"
    /\ reg.confirm = "unverified" =>
          ~reg.activateRequested /\ reg.pc = "exited" /\ reg.exit = 1

ActivatedAfterReverification ==
    reg.flow = "update" /\ reg.activateRequested /\ reg.confirm = "verified"

\* C16: Whenever a new registration finishes successfully, the ARKE_AGENT_KEY
\* secret was pushed with the new klados API key, wrangler.jsonc's AGENT_ID is
\* the new klados id, and the final worker deployment succeeded.
NewRegistrationFullyDeployed ==
    (reg.flow = "create" /\ reg.success) =>
        /\ reg.pushKey = "ok"
        /\ reg.wranglerConfig = "ok"
        /\ reg.finalDeploy = "ok"
        /\ rot.pc = "idle" =>
              /\ cloud.secrets.ARKE_AGENT_KEY = reg.apiKey
              /\ cloud.wranglerAgentId = reg.kladosId

\* C17: Every run of the registration script that pushed VERIFICATION_TOKEN or
\* ARKE_VERIFY_AGENT_ID has deleted both again by the time it terminates,
\* with success or with failure.
VerificationSecretsRemoved ==
    (reg.pc = "exited" /\ (reg.pushToken = "ok" \/ reg.pushVerifyId = "ok")) =>
        /\ cloud.secrets.VERIFICATION_TOKEN = ""
        /\ cloud.secrets.ARKE_VERIFY_AGENT_ID = ""

\* C18: A run that finds a klados id in the state file creates no collection,
\* klados or API key and updates the existing klados; when the configured
\* endpoint equals the recorded one it requests no token, pushes and deletes
\* no secret, deploys nothing, activates nothing, and changes only updated_at
\* in the state file.
RerunOnlyUpdates ==
    reg.flow = "update" =>
        /\ reg.collectionsCreated = 0
        /\ reg.kladoiCreated = 0
        /\ reg.keysCreated = 0
        /\ reg.kladosId = reg.existing.klados_id
        /\ reg.success => reg.updates = 1
        /\ reg.existing.endpoint = ConfigEndpoint =>
              /\ reg.tokenRequests = 0
              /\ reg.secretPuts = 0
              /\ reg.secretDeletes = 0
              /\ reg.deployCalls = 0
              /\ ~reg.confirmRequested
              /\ ~reg.activateRequested
              /\ rot.pc = "idle" =>
                    /\ cloud = InitCloud(reg.existing)
                    /\ arke = InitArke(reg.existing, arke.prefixLen)
                    /\ stateFile = IF reg.success
                                   THEN [reg.existing EXCEPT !.updated_at = reg.now]
                                   ELSE reg.existing

RerunWithSameEndpointDone ==
    /\ reg.flow = "update"
    /\ reg.existing.endpoint = ConfigEndpoint
    /\ reg.success
    /\ stateFile.updated_at = reg.now

\* The id of the key whose prefix the registration script recorded.
RegistrationKeyId(sf) ==
    CHOOSE i \in 1..Len(KeyChars) : GetKeyPrefix(KeyOf(i)) = sf.api_key_prefix

\* C19: When rotate-key has rotated the key of a state file written by the
\* registration script, then with --revoke-old the key found by the recorded
\* api_key_prefix is the registration key, its id was passed as the old key
\* and that key is revoked; without --revoke-old no key is revoked.
RevokeOldRevokesRegistrationKey ==
    rot.newKeyId # 0 =>
        IF rot.revokeOld
        THEN /\ rot.currentKeyId = RegistrationKeyId(rot.state)
             /\ rot.oldKeyId = RegistrationKeyId(rot.state)
             /\ rot.revokedKeyId = RegistrationKeyId(rot.state)
             /\ \E k \in arke.keys : k.id = RegistrationKeyId(rot.state) /\ k.revoked
        ELSE /\ rot.revokedKeyId = 0
             /\ \A k \in arke.keys : ~k.revoked

\* C20: Confirmation of endpoint verification is requested only after both
\* verification secrets were pushed successfully and the worker deployment
\* succeeded; a health-check timeout alone does not prevent it.
ConfirmOnlyAfterPushAndDeploy ==
    /\ reg.confirmRequested =>
          /\ reg.pushToken = "ok"
          /\ reg.pushVerifyId = "ok"
          /\ reg.deploy = "ok"
    /\ (reg.pc = "exited" /\ reg.ready = "timeout") => reg.confirmRequested

\* Every push, deploy and confirmation the run attempted succeeded.
RequiredStepsSucceeded ==
    /\ reg.pushToken # "failed"
    /\ reg.pushVerifyId # "failed"
    /\ reg.deploy # "failed"
    /\ reg.pushKey # "failed"
    /\ reg.finalDeploy # "failed"
    /\ reg.confirmRequested => reg.confirm = "verified"

\* A registration run that exited with failure left the state file as it was.
FailedRegistrationLeavesState ==
    (reg.pc = "exited" /\ reg.exit = 1 /\ rot.stateWrites = 0) =>
        /\ reg.stateWrites = 0
        /\ stateFile \in InitialStateFiles
        /\ reg.flow # "none" => stateFile = reg.existing

\* C21: A registration run that exits with failure leaves the state file
\* exactly as it was before the run; the state file is written only as the
\* last effect of a run in which every required step (API calls, secret
\* pushes, deploys, confirmation) succeeded.
StateWrittenOnlyAfterAllSteps ==
    /\ FailedRegistrationLeavesState
    /\ reg.stateWrites > 0 =>
          /\ reg.pc = "exited"
          /\ reg.exit = 0
          /\ RequiredStepsSucceeded

\* The state file as rotate-key writes it after a rotation.
RotatedState ==
    [rot.state EXCEPT !.api_key_prefix = ApiPrefix(KeyOf(rot.newKeyId), arke.prefixLen),
                      !.updated_at = RotNow]

\* C22 as stated: when rotate-key exits with failure the state file has not
\* been modified; the recorded api_key_prefix changes only in runs that
\* complete successfully, the redeploy included.
FailedRotationLeavesState ==
    /\ (rot.pc = "exited" /\ rot.exit = 1) =>
          /\ rot.stateWrites = 0
          /\ rot.state.exists => stateFile = rot.state
    /\ (rot.pc = "exited" /\ rot.stateWrites > 0) => rot.exit = 0

\* C22 as amended: the state file is unmodified when rotate-key fails before
\* or during the rotation; once rotateApiKey has
\* succeeded the new api_key_prefix and updated_at are written before the
\* redeploy, so the file holds them whether the redeploy then succeeds or the
\* run exits with failure; the prefix changes only after a successful rotation.
StateWrittenAfterRotation ==
    /\ rot.state.exists =>
          stateFile = IF rot.stateWrites > 0 THEN RotatedState ELSE rot.state
    /\ rot.stateWrites > 0 => rot.newKeyId # 0 /\ rot.pc \in {"redeploy", "exited"}
    /\ (rot.pc = "exited" /\ rot.exit = 0) => rot.stateWrites = 1

RedeployFailedAfterStateWritten ==
    /\ rot.pc = "exited"
    /\ rot.exit = 1
    /\ rot.stateWrites = 1
    /\ stateFile.api_key_prefix # rot.state.api_key_prefix

====
